---- MODULE Spec2Model ----
(***************************************************************************)
(* Model of src/src/blender.js: the device probe (getDevices), the         *)
(* metadata probe (getData) and the render supervisor (render), together   *)
(* with the string, JSON and promise primitives they are built on.         *)
(*                                                                         *)
(* A JavaScript string is a sequence of one-character strings.  A          *)
(* JavaScript value is a tagged tuple whose first element names its type:  *)
(*   <<"undefined">>  <<"null">>  <<"string", chars>>                      *)
(*   <<"number", m, k>>, the number m / 10^k, m no multiple of 10 if k > 0 *)
(*   <<"array", <<v1, ..>>>>  <<"object", << <<key, v>>, .. >>>>            *)
(*   <<"Error", name>>                                                     *)
(***************************************************************************)
EXTENDS Integers, Sequences, FiniteSets, TLC

----------------------------------------------------------------------------
(* The state *)

VARIABLES
  \* the load of the module
  config,       \* the object read from config.json
  loadPhase,    \* "loading", "loaded" (module.exports is set) or "exited"
  exitCode,     \* the exit code of the process once it has exited, or None
  \* getDevices
  dvPhase,      \* "idle", "exited" (spawnSync has returned), "done"
  dvSpawned,    \* the subprocess could be spawned: child.stdout is a buffer
  dvStdout,     \* the captured standard output
  dvResult,     \* None, <<"return", value>> or <<"throw", value>>
  \* getData
  gdPhase,      \* "idle", "running", "failed" (could not be spawned),
                \* "closed" (the subprocess has exited and its stdout has ended)
  gdStream,     \* what the subprocess writes to stdout when it is left running
  gdPos,        \* how much of gdStream has been delivered in 'data' events
  gdFuture,     \* the promise getData returned
  gdKills,      \* the number of child.kill() calls
  gdUncaught,   \* None, or <<"throw", value>>: an exception left the
                \* 'data' listener
  gdLateScans,  \* the number of chunks the listener scanned after a kill request
  gdComplete,   \* <<FALSE>>, or <<TRUE, line>>: the first sentinel line that
                \* arrived whole inside one chunk (history)
  \* render, each a function of the invocation
  rPhase,       \* "idle", "running", "errored" (could not be spawned),
                \* "closed" (the 'close' event has been emitted)
  rStream,      \* what the subprocess writes to stdout
  rPos,         \* how much of rStream has been delivered in 'data' events
  rEvents,      \* the calls of onprogress so far, each [output, at]: the
                \* record passed, and where in rStream its line began (history)
  rFuture,      \* the promise render returned
  rError,       \* the value of the 'error' event, once emitted, or None
  rExit,        \* <<code, signal>> of the 'close' event, once emitted, or <<>>
  \* a call of one of the two pure functions
  pArg,         \* what the function is called on, or None
  pResult       \* <<"return", value>> once it has returned, or None

loadVars == <<config, loadPhase, exitCode>>

dvVars == <<dvPhase, dvSpawned, dvStdout, dvResult>>

gdVars == <<gdPhase, gdStream, gdPos, gdFuture, gdKills, gdUncaught, gdLateScans, gdComplete>>

rVars == <<rPhase, rStream, rPos, rEvents, rFuture, rError, rExit>>

pVars == <<pArg, pResult>>

vars == <<loadVars, dvVars, gdVars, rVars, pVars>>

----------------------------------------------------------------------------
(* Bounds of the model *)

\* the subprocess writes at most this many lines to stdout
MaxLines == 2

----------------------------------------------------------------------------
(* Strings *)

Digit == {"0", "1", "2", "3", "4", "5", "6", "7", "8", "9"}

DigitVal(c) ==
  CASE c = "0" -> 0 [] c = "1" -> 1 [] c = "2" -> 2 [] c = "3" -> 3
    [] c = "4" -> 4 [] c = "5" -> 5 [] c = "6" -> 6 [] c = "7" -> 7
    [] c = "8" -> 8 [] c = "9" -> 9

Min(S) == CHOOSE x \in S : \A y \in S : x <= y

Max(S) == CHOOSE x \in S : \A y \in S : x >= y

\* p occurs in s at position i
OccursAt(s, i, p) ==
  /\ i + Len(p) - 1 <= Len(s)
  /\ \A k \in 1..Len(p) : s[i + k - 1] = p[k]

\* String.prototype.startsWith
startsWith(s, p) == OccursAt(s, 1, p)

\* String.prototype.split with a non-empty separator: the pieces between the
\* leftmost non-overlapping occurrences of sep, in order
\* the first position from i on where p occurs in s, or 0
indexOf(s, p, i) ==
  LET occ == {k \in i..(Len(s) - Len(p) + 1) : OccursAt(s, k, p)}
  IN  IF occ = {} THEN 0 ELSE Min(occ)

RECURSIVE split(_, _)
split(s, sep) ==
  LET i == indexOf(s, sep, 1)
  IN  IF i = 0 THEN <<s>>
      ELSE <<SubSeq(s, 1, i - 1)>> \o split(SubSeq(s, i + Len(sep), Len(s)), sep)

\* the text of all lines, each ended by a newline
RECURSIVE JoinLines(_)
JoinLines(lines) ==
  IF lines = <<>> THEN <<>>
  ELSE Head(lines) \o <<"\n">> \o JoinLines(Tail(lines))

\* every sequence of at most n elements of pool
SeqsUpTo(pool, n) == UNION {[1..k -> pool] : k \in 0..n}

----------------------------------------------------------------------------
(* JavaScript values *)

Undefined == <<"undefined">>

Null == <<"null">>

\* the integer n as a JavaScript number
Num(n) == <<"number", n, 0>>

\* the number m / 10^k
RECURSIVE Decimal(_, _)
Decimal(m, k) ==
  IF k > 0 /\ m % 10 = 0 THEN Decimal(m \div 10, k - 1) ELSE <<"number", m, k>>

\* no value yet
None == <<"none">>

SyntaxError == <<"Error", "SyntaxError">>

TypeError == <<"Error", "TypeError">>

\* the error of a failed spawn, as delivered to the 'error' listeners
SpawnError == <<"Error", "ENOENT">>

----------------------------------------------------------------------------
(* JSON.parse, over the JSON texts of the model: non-negative integers,    *)
(* strings without escapes, arrays and objects, with JSON white space.     *)
(* A parse step yields <<TRUE, value, next position>> or <<FALSE>>.        *)

JsonWs == {" ", "\t", "\n", "\r"}

RECURSIVE SkipWs(_, _)
SkipWs(s, i) == IF i <= Len(s) /\ s[i] \in JsonWs THEN SkipWs(s, i + 1) ELSE i

\* the first position from i on that holds no digit
RECURSIVE DigitsEnd(_, _)
DigitsEnd(s, i) == IF i <= Len(s) /\ s[i] \in Digit THEN DigitsEnd(s, i + 1) ELSE i

\* the number a sequence of decimal digits denotes
RECURSIVE DecimalValue(_)
DecimalValue(d) ==
  IF d = <<>> THEN 0
  ELSE 10 * DecimalValue(SubSeq(d, 1, Len(d) - 1)) + DigitVal(d[Len(d)])

JsonFail == <<FALSE>>

\* a JSON number: "0", or a digit 1-9 followed by digits
JsonNumber(s, i) ==
  LET e == IF s[i] = "0" THEN i + 1 ELSE DigitsEnd(s, i)
  IN  <<TRUE, Num(DecimalValue(SubSeq(s, i, e - 1))), e>>

\* a JSON string starting at the quote at i
JsonString(s, i) ==
  LET close == {j \in (i + 1)..Len(s) : s[j] = "\""}
  IN  IF close = {} THEN JsonFail
      ELSE LET j == Min(close)
           IN  IF \E k \in (i + 1)..(j - 1) : s[k] = "\\" THEN JsonFail
               ELSE <<TRUE, <<"string", SubSeq(s, i + 1, j - 1)>>, j + 1>>

RECURSIVE JsonValue(_, _), JsonElements(_, _, _), JsonMembers(_, _, _)

\* the value starting at or after position i0
JsonValue(s, i0) ==
  LET i == SkipWs(s, i0)
  IN  IF i > Len(s) THEN JsonFail
      ELSE IF s[i] \in Digit THEN JsonNumber(s, i)
      ELSE IF s[i] = "\"" THEN JsonString(s, i)
      ELSE IF s[i] = "[" THEN
        LET j == SkipWs(s, i + 1)
        IN  IF j <= Len(s) /\ s[j] = "]" THEN <<TRUE, <<"array", <<>>>>, j + 1>>
            ELSE JsonElements(s, i + 1, <<>>)
      ELSE IF s[i] = "{" THEN
        LET j == SkipWs(s, i + 1)
        IN  IF j <= Len(s) /\ s[j] = "}" THEN <<TRUE, <<"object", <<>>>>, j + 1>>
            ELSE JsonMembers(s, i + 1, <<>>)
      ELSE JsonFail

\* the elements of an array after "[" or ",", acc holding those already read
JsonElements(s, i, acc) ==
  LET v == JsonValue(s, i)
  IN  IF ~v[1] THEN JsonFail
      ELSE LET j == SkipWs(s, v[3])
           IN  IF j > Len(s) THEN JsonFail
               ELSE IF s[j] = "]" THEN <<TRUE, <<"array", Append(acc, v[2])>>, j + 1>>
               ELSE IF s[j] = "," THEN JsonElements(s, j + 1, Append(acc, v[2]))
               ELSE JsonFail

\* the members of an object after "{" or ",", acc holding those already read
JsonMembers(s, i0, acc) ==
  LET i == SkipWs(s, i0)
  IN  IF i > Len(s) \/ s[i] # "\"" THEN JsonFail
      ELSE LET key == JsonString(s, i)
           IN  IF ~key[1] THEN JsonFail
               ELSE LET c == SkipWs(s, key[3])
                    IN  IF c > Len(s) \/ s[c] # ":" THEN JsonFail
                        ELSE LET v == JsonValue(s, c + 1)
                             IN  IF ~v[1] THEN JsonFail
                                 ELSE LET j == SkipWs(s, v[3])
                                          member == <<key[2][2], v[2]>>
                                      IN  IF j > Len(s) THEN JsonFail
                                          ELSE IF s[j] = "}" THEN
                                            <<TRUE, <<"object", Append(acc, member)>>, j + 1>>
                                          ELSE IF s[j] = "," THEN
                                            JsonMembers(s, j + 1, Append(acc, member))
                                          ELSE JsonFail

\* JSON.parse(text): <<"return", value>>, or <<"throw", SyntaxError>> when
\* text is not one JSON value surrounded by white space
JSONparse(text) ==
  LET v == JsonValue(text, 1)
  IN  IF v[1] /\ SkipWs(text, v[3]) > Len(text) THEN <<"return", v[2]>>
      ELSE <<"throw", SyntaxError>>

----------------------------------------------------------------------------
(* Promises: a future is <<state, value>>; resolve and reject settle a     *)
(* pending future and leave a settled one as it is.                        *)

Pending == <<"pending", Undefined>>

resolve(future, value) ==
  IF future[1] = "pending" THEN <<"resolved", value>> ELSE future

\* a reject that would replace the outcome of a settled future
rejectAlways(future, value) == <<"rejected", value>>

reject(future, value) ==
  IF future[1] = "pending" THEN <<"rejected", value>> ELSE future

----------------------------------------------------------------------------
(* The probe scripts' output *)

getDataScriptPrefix ==
  <<"r","e","n","d","e","r","_","f","a","r","m","_","d","a","t","a","=">>

InvalidStdout == <<"string", <<"i","n","v","a","l","i","d"," ","s","t","d","o","u","t">>>>

\* lines a probe subprocess may write
BannerLine == <<"B","l","e","n","d","e","r"," ","2",".","8","3">>

ObjectLine == getDataScriptPrefix \o <<"{","\"","a","\"",":","1","}">>

ArrayLine == getDataScriptPrefix \o <<"[","0",",","1","2","]">>

\* a payload that is a JSON string holding the prefix itself
NestedLine == getDataScriptPrefix \o <<"\"">> \o getDataScriptPrefix \o <<"\"">>

\* a sentinel line whose remainder is no JSON
BrokenLine == getDataScriptPrefix \o <<"o","o","p","s">>

\* the prefix, but not at the start of the line
IndentedLine == <<" ">> \o getDataScriptPrefix \o <<"7">>

\* texts of at most MaxLines lines of pool, the last line with or without
\* its newline
Outputs(pool) ==
  LET texts == {JoinLines(ls) : ls \in SeqsUpTo(pool, MaxLines)}
  IN  texts \cup {SubSeq(t, 1, Len(t) - 1) : t \in texts \ {<<>>}}

\* what the get_devices subprocess may write
DevicesOutputs ==
  Outputs({<<>>, BannerLine, ObjectLine, ArrayLine, NestedLine, BrokenLine, IndentedLine})

\* what the get_data subprocess may write
DataOutputs == Outputs({<<>>, BannerLine, ObjectLine, ArrayLine, BrokenLine})

----------------------------------------------------------------------------
(* getDevices *)

\* the first line that starts with the prefix, or <<FALSE>>
FirstSentinelLine(lines) ==
  LET hits == {k \in 1..Len(lines) : startsWith(lines[k], getDataScriptPrefix)}
  IN  IF hits = {} THEN <<FALSE>> ELSE <<TRUE, lines[Min(hits)]>>

\* the whole of a sentinel line after its prefix
PayloadWhole(line) == SubSeq(line, Len(getDataScriptPrefix) + 1, Len(line))

\* the text JSON.parse is applied to: line.split(getDataScriptPrefix)[1]
PayloadText(line) == split(line, getDataScriptPrefix)[2]

\* the scan of lines 80-89 over the captured output
getDevicesScan(stdout) ==
  LET first == FirstSentinelLine(split(stdout, <<"\n">>))
  IN  IF ~first[1] THEN <<"throw", InvalidStdout>>
      ELSE JSONparse(PayloadText(first[2]))

DvInit ==
  /\ dvPhase = "idle"
  /\ dvSpawned = FALSE
  /\ dvStdout = <<>>
  /\ dvResult = None

\* spawnSync: the subprocess runs to its exit and its output is captured
DvSpawnSync ==
  /\ loadPhase = "loaded"
  /\ dvPhase = "idle"
  /\ dvPhase' = "exited"
  /\ dvSpawned' = TRUE
  /\ dvStdout' \in DevicesOutputs
  /\ UNCHANGED dvResult
  /\ UNCHANGED <<pVars, loadVars, gdVars, rVars>>

\* spawnSync of an executable that cannot be run: child.stdout is null
DvSpawnSyncFails ==
  /\ loadPhase = "loaded"
  /\ dvPhase = "idle"
  /\ dvPhase' = "exited"
  /\ dvSpawned' = FALSE
  /\ UNCHANGED <<dvStdout, dvResult>>
  /\ UNCHANGED <<pVars, loadVars, gdVars, rVars>>

\* the rest of getDevices: child.stdout.toString(), the scan, return or throw
DvScan ==
  /\ dvPhase = "exited"
  /\ dvPhase' = "done"
  /\ dvResult' = IF dvSpawned THEN getDevicesScan(dvStdout) ELSE <<"throw", TypeError>>
  /\ UNCHANGED <<dvSpawned, dvStdout>>
  /\ UNCHANGED <<pVars, loadVars, gdVars, rVars>>

----------------------------------------------------------------------------
(* getData *)

\* the 'data' listener of lines 106-119 on one chunk: the future after it,
\* the number of kill requests it made and the exception that left it
getDataOnData(future, data) ==
  LET first == FirstSentinelLine(split(data, <<"\n">>))
  IN  IF ~first[1]
      THEN [future |-> reject(future, InvalidStdout), kills |-> 0, uncaught |-> None]
      ELSE LET json == JSONparse(PayloadText(first[2]))
           IN  IF json[1] = "throw"
               THEN [future |-> future, kills |-> 0, uncaught |-> json]
               ELSE [future |-> resolve(future, json[2]), kills |-> 1, uncaught |-> None]

\* the lines of the chunk stream[from..to] that are whole lines of the stream
CompleteLines(stream, from, to) ==
  LET lines == split(SubSeq(stream, from, to), <<"\n">>)
      startsLine == from = 1 \/ stream[from - 1] = "\n"
      endsLine == to = Len(stream) \/ stream[to + 1] = "\n"
      keep == {k \in 1..Len(lines) : /\ k > 1 \/ startsLine
                                     /\ k < Len(lines) \/ endsLine}
  IN  [k \in keep |-> lines[k]]

\* the first whole line of the chunk that starts with the prefix, or <<FALSE>>
FirstCompleteSentinel(stream, from, to) ==
  LET whole == CompleteLines(stream, from, to)
      hits == {k \in DOMAIN whole : startsWith(whole[k], getDataScriptPrefix)}
  IN  IF hits = {} THEN <<FALSE>> ELSE <<TRUE, whole[Min(hits)]>>

GdInit ==
  /\ gdPhase = "idle"
  /\ gdStream = <<>>
  /\ gdPos = 0
  /\ gdFuture = Pending
  /\ gdKills = 0
  /\ gdUncaught = None
  /\ gdLateScans = 0
  /\ gdComplete = <<FALSE>>

\* spawn succeeds; the subprocess starts to run
GdSpawn ==
  /\ loadPhase = "loaded"
  /\ gdPhase = "idle"
  /\ gdPhase' = "running"
  /\ gdStream' \in DataOutputs
  /\ UNCHANGED <<gdPos, gdFuture, gdKills, gdUncaught, gdLateScans, gdComplete>>
  /\ UNCHANGED <<pVars, loadVars, dvVars, rVars>>

\* spawn fails: the 'error' event, whose listener is reject (line 121)
GdError ==
  /\ loadPhase = "loaded"
  /\ gdPhase = "idle"
  /\ gdPhase' = "failed"
  /\ gdFuture' = reject(gdFuture, SpawnError)
  /\ UNCHANGED <<gdStream, gdPos, gdKills, gdUncaught, gdLateScans, gdComplete>>
  /\ UNCHANGED <<pVars, loadVars, dvVars, rVars>>

\* a 'data' event with the next n characters of the output.  After a kill
\* request the output written before the subprocess died still arrives.  An
\* exception that leaves the listener is uncaught: it ends the program.
GdData ==
  /\ gdPhase = "running"
  /\ gdUncaught = None
  /\ \E n \in 1..(Len(gdStream) - gdPos) :
       LET after == getDataOnData(gdFuture, SubSeq(gdStream, gdPos + 1, gdPos + n))
           whole == FirstCompleteSentinel(gdStream, gdPos + 1, gdPos + n)
       IN  /\ gdPos' = gdPos + n
           /\ gdFuture' = after.future
           /\ gdKills' = gdKills + after.kills
           /\ gdUncaught' = after.uncaught
           /\ gdLateScans' = IF gdKills > 0 THEN gdLateScans + 1 ELSE gdLateScans
           /\ gdComplete' = IF gdComplete[1] THEN gdComplete ELSE whole
  /\ UNCHANGED <<gdPhase, gdStream>>
  /\ UNCHANGED <<pVars, loadVars, dvVars, rVars>>

\* the subprocess has exited and its stdout has ended: after all its output
\* was delivered, or earlier when it was killed.  getData has no listener.
GdClose ==
  /\ gdPhase = "running"
  /\ gdUncaught = None
  /\ gdPos = Len(gdStream) \/ gdKills > 0
  /\ gdPhase' = "closed"
  /\ UNCHANGED <<gdStream, gdPos, gdFuture, gdKills, gdUncaught, gdLateScans, gdComplete>>
  /\ UNCHANGED <<pVars, loadVars, dvVars, rVars>>

----------------------------------------------------------------------------
(* blenderLineRegExp (line 29), with the meaning the regular expression    *)
(* engine gives it: the items of the pattern are matched from left to      *)
(* right; a greedy quantifier takes the longest text for which the rest of *)
(* the pattern still matches, an optional group is taken whenever the rest *)
(* matches with it, and an earlier item chooses before a later one.        *)
(* For each item X of the pattern, XFrom(s, i) says that the pattern from  *)
(* X on matches the line s from position i to its end, and XEnds(s, a) is  *)
(* the set of positions at which X, starting at a, can end with the rest   *)
(* of the pattern matching: the engine's choice is the largest.            *)

NoMatch == <<FALSE>>

Str(chars) == <<"string", chars>>

\* "." matches every character but a line terminator
Dot(c) == c \notin {"\n", "\r"}

\* the first position from i on that holds no character "." matches
DotEnd(s, i) ==
  IF i > Len(s) THEN i
  ELSE CHOOSE e \in i..(Len(s) + 1) :
         /\ e = Len(s) + 1 \/ ~Dot(s[e])
         /\ \A k \in i..(e - 1) : Dot(s[k])

\* the first position from i on that holds "|", or the end
NoPipeEnd(s, i) ==
  IF i > Len(s) THEN i
  ELSE CHOOSE e \in i..(Len(s) + 1) :
         /\ e = Len(s) + 1 \/ s[e] = "|"
         /\ \A k \in i..(e - 1) : s[k] # "|"

\* \d{2} at i
TwoDigits(s, i) == i + 1 <= Len(s) /\ s[i] \in Digit /\ s[i + 1] \in Digit

\* \d{2}:\d{2}\.\d{2} at i (8 characters)
TimecodeAt(s, i) ==
  /\ i + 7 <= Len(s)
  /\ TwoDigits(s, i) /\ s[i + 2] = ":"
  /\ TwoDigits(s, i + 3) /\ s[i + 5] = "."
  /\ TwoDigits(s, i + 6)

\* " \| (?<extra_information>.+)" from i to the end of the line
ExtraPresent(s, i) ==
  OccursAt(s, i, <<" ","|"," ">>) /\ i + 3 <= Len(s) /\ DotEnd(s, i + 3) = Len(s) + 1

\* ( \| (?<extra_information>.+))?$
ExtraFrom(s, i) == ExtraPresent(s, i) \/ i = Len(s) + 1

\* (?<information>[^\|]+) and the rest
InformationEnds(s, a) == {e \in (a + 1)..NoPipeEnd(s, a) : ExtraFrom(s, e)}

\* (?<render_layer>[^\|]+), " \| " and the rest
RenderLayerEnds(s, a) ==
  {e \in (a + 1)..NoPipeEnd(s, a) :
     OccursAt(s, e, <<" ","|"," ">>) /\ InformationEnds(s, e + 3) # {}}

\* (?<scene>[^\|]+), ", " and the rest
SceneEnds(s, a) ==
  {e \in (a + 1)..NoPipeEnd(s, a) :
     OccursAt(s, e, <<","," ">>) /\ RenderLayerEnds(s, e + 2) # {}}

\* \d+\.\d{2} from i: the position of its "."; 0 if there is no such text.
\* The \d+ can only end where the digits end: any shorter text is followed
\* by a digit, not by the "." the pattern asks for.
FixedPointDot(s, i) ==
  LET d == DigitsEnd(s, i)
  IN  IF d > i /\ OccursAt(s, d, <<".">>) /\ TwoDigits(s, d + 1) THEN d ELSE 0

\* " Mem:(?<memory_current>\d+\.\d{2})M, Peak:" from i: the position where
\* memory_current_peak starts, or 0
PeakStart(s, i) ==
  LET cd == FixedPointDot(s, i + 5)
  IN  IF /\ OccursAt(s, i, <<" ","M","e","m",":">>)
         /\ cd > 0
         /\ OccursAt(s, cd + 3, <<"M",","," ","P","e","a","k",":">>)
      THEN cd + 11 ELSE 0

\* " Mem:...M, Peak:(?<memory_current_peak>\d+\.\d{2})M \| " from i: the
\* position where scene starts, or 0
SceneStart(s, i) ==
  LET p == PeakStart(s, i)
      pd == FixedPointDot(s, p)
  IN  IF p > 0 /\ pd > 0 /\ OccursAt(s, pd + 3, <<"M"," ","|"," ">>)
      THEN pd + 7 ELSE 0

\* scene, starting at sc, and the rest; sc = 0 says that the text before
\* scene did not match
SceneFrom(s, sc) == sc > 0 /\ SceneEnds(s, sc) # {}

\* " Mem:" ... "M \| " and the rest
MemoryFrom(s, i) == SceneFrom(s, SceneStart(s, i))

\* " Remaining:(?<remaining_time>\d{2}:\d{2}\.\d{2}) \|" and the rest
RemainingPresent(s, i) ==
  /\ OccursAt(s, i, <<" ","R","e","m","a","i","n","i","n","g",":">>)
  /\ TimecodeAt(s, i + 11)
  /\ OccursAt(s, i + 19, <<" ","|">>)
  /\ MemoryFrom(s, i + 21)

\* the group without its "?": the remaining time has to be there
RemainingFromRequired(s, i) == RemainingPresent(s, i)

\* ( Remaining:... \|)? and the rest
RemainingFrom(s, i) == RemainingPresent(s, i) \/ MemoryFrom(s, i)

\* the .+ of \(.+\), "\) \| Time:(?<render_time>\d{2}:\d{2}\.\d{2}) \|" and the rest
ParenthesisEnds(s, a) ==
  {e \in (a + 1)..DotEnd(s, a) :
     /\ OccursAt(s, e, <<")"," ","|"," ","T","i","m","e",":">>)
     /\ TimecodeAt(s, e + 9)
     /\ OccursAt(s, e + 17, <<" ","|">>)
     /\ RemainingFrom(s, e + 19)}

\* "M \(" at e, after memory_global, and the rest
ParenthesisFrom(s, e) ==
  OccursAt(s, e, <<"M"," ","(">>) /\ ParenthesisEnds(s, e + 3) # {}

\* the group (.\d+) from e on: the ends of its \d+
FractionEnds(s, e) ==
  IF e <= Len(s) /\ Dot(s[e])
  THEN {f \in (e + 2)..DigitsEnd(s, e + 1) : ParenthesisFrom(s, f)}
  ELSE {}

\* the end of memory_global when its first \d+ ends at e: the group (.\d+),
\* whose ends are fractionEnds, is taken if it can be
PreferFraction(fractionEnds, e) ==
  IF fractionEnds # {} THEN Max(fractionEnds) ELSE e

\* the largest of the ends of the first \d+ of memory_global, or 0
LongestDigits(ends) == IF ends = {} THEN 0 ELSE Max(ends)

\* (?<memory_global>\d+(.\d+)?) from a: where it ends, or 0.  The first \d+
\* takes the most digits for which the rest matches, with the group (.\d+)
\* or, failing that, without it.
MemoryGlobalEndFor(s, e) == IF e = 0 THEN 0 ELSE PreferFraction(FractionEnds(s, e), e)

MemoryGlobalEnd(s, a) ==
  MemoryGlobalEndFor(s, LongestDigits({e \in (a + 1)..DigitsEnd(s, a) :
                                         FractionEnds(s, e) # {} \/ ParenthesisFrom(s, e)}))

\* "^Fra:(?<frame>\d+) Mem:" : the position where memory_global starts, or
\* 0.  The \d+ can only end where the digits end, a space being asked for.
MemoryGlobalStartAfter(line, d) ==
  IF /\ OccursAt(line, 1, <<"F","r","a",":">>)
     /\ d > 5
     /\ OccursAt(line, d, <<" ","M","e","m",":">>)
  THEN d + 5 ELSE 0

MemoryGlobalStart(line) == MemoryGlobalStartAfter(line, DigitsEnd(line, 5))

\* the positions of a match, found from left to right: where memory_global
\* starts and ends, where the .+ in parentheses ends, where " Mem:" starts,
\* where memory_current_peak and scene start, and where scene, render_layer
\* and information end
NoPositions ==
  [mg |-> 0, mgEnd |-> 0, parEnd |-> 0, mem |-> 0, peak |-> 0, sc |-> 0,
   scEnd |-> 0, rlEnd |-> 0, infEnd |-> 0]

\* the groups of the match with the positions at
Groups(line, at) ==
  [frame |-> Str(SubSeq(line, 5, at.mg - 6)),
   memory_global |-> Str(SubSeq(line, at.mg, at.mgEnd - 1)),
   render_time |-> Str(SubSeq(line, at.parEnd + 9, at.parEnd + 16)),
   remaining_time |->
     IF at.mem = at.parEnd + 19 THEN Undefined
     ELSE Str(SubSeq(line, at.parEnd + 30, at.parEnd + 37)),
   memory_current |-> Str(SubSeq(line, at.mem + 5, at.peak - 9)),
   memory_current_peak |-> Str(SubSeq(line, at.peak, at.sc - 5)),
   scene |-> Str(SubSeq(line, at.sc, at.scEnd - 1)),
   render_layer |-> Str(SubSeq(line, at.scEnd + 2, at.rlEnd - 1)),
   information |-> Str(SubSeq(line, at.rlEnd + 3, at.infEnd - 1)),
   extra_information |->
     IF at.infEnd = Len(line) + 1 THEN Undefined
     ELSE Str(SubSeq(line, at.infEnd + 3, Len(line)))]

ExecInformation(line, at) ==
  <<TRUE, Groups(line, [at EXCEPT !.infEnd = Max(InformationEnds(line, at.rlEnd + 3))])>>

ExecRenderLayer(line, at) ==
  ExecInformation(line, [at EXCEPT !.rlEnd = Max(RenderLayerEnds(line, at.scEnd + 2))])

ExecScene(line, at) ==
  ExecRenderLayer(line, [at EXCEPT !.scEnd = Max(SceneEnds(line, at.sc))])

ExecMemory(line, at) ==
  ExecScene(line, [at EXCEPT !.peak = PeakStart(line, at.mem),
                             !.sc = SceneStart(line, at.mem)])

\* the optional group " Remaining:... \|" has 21 characters
ExecRemaining(line, at) ==
  ExecMemory(line, [at EXCEPT !.mem = IF RemainingPresent(line, at.parEnd + 19)
                                      THEN at.parEnd + 40 ELSE at.parEnd + 19])

ExecParenthesis(line, at) ==
  IF at.mgEnd = 0 THEN NoMatch
  ELSE ExecRemaining(line, [at EXCEPT !.parEnd = Max(ParenthesisEnds(line, at.mgEnd + 3))])

ExecMemoryGlobal(line, at) ==
  IF at.mg = 0 THEN NoMatch
  ELSE ExecParenthesis(line, [at EXCEPT !.mgEnd = MemoryGlobalEnd(line, at.mg)])

\* blenderLineRegExp.exec(line): <<FALSE>> (null), or <<TRUE, groups>>
blenderLineRegExpExec(line) ==
  ExecMemoryGlobal(line, [NoPositions EXCEPT !.mg = MemoryGlobalStart(line)])

----------------------------------------------------------------------------
(* parseBlenderTime and parseBlenderOutputLine *)

\* parseInt of a text of decimal digits
parseInt(text) == Num(DecimalValue(text))

\* parseFloat of a text of the shapes the pattern captures, \d+ or \d+.\d+
\* with any character for the ".": the longest prefix that is a decimal
\* literal (the model's lines put no exponent there)
parseFloat(text) ==
  LET d == DigitsEnd(text, 1)
      f == DigitsEnd(text, d + 1)
  IN  IF d <= Len(text) /\ text[d] = "." /\ f > d + 1
      THEN Decimal(DecimalValue(SubSeq(text, 1, d - 1) \o SubSeq(text, d + 1, f - 1)),
                   f - d - 1)
      ELSE Num(DecimalValue(SubSeq(text, 1, d - 1)))

\* a conversion that drops the fraction of a second
parseBlenderTimeWholeSeconds(timeString) ==
  Num(  DecimalValue(SubSeq(timeString, 1, 2)) * 60000
      + DecimalValue(SubSeq(timeString, 4, 5)) * 1000)

\* moment.duration("00:" + timeString).asMilliseconds() for MM:SS.CC: moment
\* reads hours, minutes, seconds and a fraction of a second off the text and
\* adds them up, no field being reduced modulo 60
parseBlenderTime(timeString) ==
  Num(  DecimalValue(SubSeq(timeString, 1, 2)) * 60000
      + DecimalValue(SubSeq(timeString, 4, 5)) * 1000
      + DecimalValue(SubSeq(timeString, 7, 8)) * 10)

\* the record of lines 55-66 for the groups of a match
OutputRecord(groups) ==
  [frame |-> parseInt(groups.frame[2]),
   memory_global |-> parseFloat(groups.memory_global[2]),
   render_time |-> parseBlenderTime(groups.render_time[2]),
   remaining_time |->
     IF groups.remaining_time = Undefined THEN Undefined
     ELSE parseBlenderTime(groups.remaining_time[2]),
   memory_current |-> parseFloat(groups.memory_current[2]),
   memory_current_peak |-> parseFloat(groups.memory_current_peak[2]),
   scene |-> groups.scene,
   render_layer |-> groups.render_layer,
   information |-> groups.information,
   extra_information |-> groups.extra_information]

\* lines 53-66 for the result of exec: <<FALSE>> (null), or <<TRUE, record>>
OutputOf(output) == IF ~output[1] THEN NoMatch ELSE <<TRUE, OutputRecord(output[2])>>

parseBlenderOutputLine(line) == OutputOf(blenderLineRegExpExec(line))

----------------------------------------------------------------------------
(* render *)

\* the render invocations of the model; a specification runs some of them
Jobs == {1, 2}

\* progress lines of a render subprocess, without and with the optional parts
ProgressLine ==
  <<"F","r","a",":","1"," ","M","e","m",":","2","M"," ","(","x",")"," ","|",
    " ","T","i","m","e",":","0","0",":","0","1",".","5","0"," ","|"," ","M",
    "e","m",":","1",".","0","0","M",","," ","P","e","a","k",":","1",".","0",
    "0","M"," ","|"," ","S",","," ","L"," ","|"," ","A","b">>

FullLine ==
  <<"F","r","a",":","2"," ","M","e","m",":","2",".","5","M"," ","(","x",")",
    " ","|"," ","T","i","m","e",":","0","0",":","0","2",".","0","0"," ","|",
    " ","R","e","m","a","i","n","i","n","g",":","0","0",":","0","1",".","0",
    "0"," ","|"," ","M","e","m",":","1",".","0","0","M",","," ","P","e","a",
    "k",":","1",".","5","0","M"," ","|"," ","S",","," ","L"," ","|"," ","A",
    " ","|"," ","E">>

\* what the render subprocess may write: blank lines, banners, progress lines
RenderOutputs ==
  {JoinLines(ls) : ls \in SeqsUpTo({<<>>, BannerLine, ProgressLine}, MaxLines)}

SIGTERM == Str(<<"S","I","G","T","E","R","M">>)

\* <<code, signal>> of a subprocess that ran: an exit code, or the signal
\* that ended it
ExitStatuses == {<<Num(0), Null>>, <<Num(1), Null>>, <<Null, SIGTERM>>}

\* <<code, signal>> of the 'close' event that follows a failed spawn: the
\* negative error number of the failure
SpawnFailureStatus == <<Num(-2), Null>>

\* split, each piece with the position of its first character, the text
\* starting at position base
RECURSIVE splitAt(_, _, _)
splitAt(s, sep, base) ==
  LET i == indexOf(s, sep, 1)
  IN  IF i = 0 THEN <<[text |-> s, at |-> base]>>
      ELSE <<[text |-> SubSeq(s, 1, i - 1), at |-> base]>>
           \o splitAt(SubSeq(s, i + Len(sep), Len(s)), sep, base + i - 1 + Len(sep))

\* filter(Boolean) over pieces
RECURSIVE filterBooleanAt(_)
filterBooleanAt(pieces) ==
  IF pieces = <<>> THEN <<>>
  ELSE IF Head(pieces).text = <<>> THEN filterBooleanAt(Tail(pieces))
       ELSE <<Head(pieces)>> \o filterBooleanAt(Tail(pieces))

\* a line handler that calls onprogress without looking at the result
onLineUnchecked(output, at) ==
  <<[output |-> IF output[1] THEN output[2] ELSE Null, at |-> at]>>

\* lines 153-154 for one line: the onprogress call it makes, if any; at is
\* the position where the line began
onLine(output, at) ==
  IF output[1] THEN <<[output |-> output[2], at |-> at]>> ELSE <<>>

\* a forEach that visits the last line first
RECURSIVE forEachLineReversed(_)
forEachLineReversed(lines) ==
  IF lines = <<>> THEN <<>>
  ELSE forEachLineReversed(Tail(lines))
       \o onLine(parseBlenderOutputLine(Head(lines).text), Head(lines).at)

\* lines.forEach of lines 151-155: the onprogress calls, in order
RECURSIVE forEachLine(_)
forEachLine(lines) ==
  IF lines = <<>> THEN <<>>
  ELSE onLine(parseBlenderOutputLine(Head(lines).text), Head(lines).at)
       \o forEachLine(Tail(lines))

\* the 'data' listener of lines 147-156 on the chunk that starts at position
\* base of the output: the onprogress calls it makes
renderOnData(data, base) == forEachLine(filterBooleanAt(splitAt(data, <<"\n">>, base)))

\* a 'close' listener that looks at the signal and not at the code
renderOnCloseAnyCode(future, code, signal) ==
  IF signal # Null THEN reject(future, signal) ELSE resolve(future, Undefined)

\* the 'close' listener of lines 160-164
renderOnClose(future, code, signal) ==
  IF code # Num(0) THEN reject(future, signal) ELSE resolve(future, Undefined)

RInit ==
  /\ rPhase = [j \in Jobs |-> "idle"]
  /\ rStream = [j \in Jobs |-> <<>>]
  /\ rPos = [j \in Jobs |-> 0]
  /\ rEvents = [j \in Jobs |-> <<>>]
  /\ rFuture = [j \in Jobs |-> Pending]
  /\ rError = [j \in Jobs |-> None]
  /\ rExit = [j \in Jobs |-> <<>>]

\* spawn succeeds; the subprocess starts to run
RSpawn(j) ==
  /\ loadPhase = "loaded"
  /\ rPhase[j] = "idle"
  /\ rPhase' = [rPhase EXCEPT ![j] = "running"]
  /\ \E out \in RenderOutputs : rStream' = [rStream EXCEPT ![j] = out]
  /\ UNCHANGED <<rPos, rEvents, rFuture, rError, rExit>>
  /\ UNCHANGED <<pVars, loadVars, dvVars, gdVars>>

\* what a render subprocess that writes at most one line may write
BriefOutputs == {JoinLines(ls) : ls \in SeqsUpTo({BannerLine, ProgressLine}, 1)}

\* spawn succeeds, of a subprocess that writes at most one line
RSpawnBrief(j) ==
  /\ loadPhase = "loaded"
  /\ rPhase[j] = "idle"
  /\ rPhase' = [rPhase EXCEPT ![j] = "running"]
  /\ \E out \in BriefOutputs : rStream' = [rStream EXCEPT ![j] = out]
  /\ UNCHANGED <<rPos, rEvents, rFuture, rError, rExit>>
  /\ UNCHANGED <<pVars, loadVars, dvVars, gdVars>>

\* spawn fails: the 'error' event, whose listener is reject (line 158)
RError(j) ==
  /\ loadPhase = "loaded"
  /\ rPhase[j] = "idle"
  /\ rPhase' = [rPhase EXCEPT ![j] = "errored"]
  /\ rError' = [rError EXCEPT ![j] = SpawnError]
  /\ rFuture' = [rFuture EXCEPT ![j] = reject(rFuture[j], SpawnError)]
  /\ UNCHANGED <<rStream, rPos, rEvents, rExit>>
  /\ UNCHANGED <<pVars, loadVars, dvVars, gdVars>>

\* a 'data' listener whose onprogress is the one of the last render call:
\* the events go to the other invocation
RDataShared(j) ==
  /\ rPhase[j] = "running"
  /\ \E n \in 1..(Len(rStream[j]) - rPos[j]) :
       /\ rPos' = [rPos EXCEPT ![j] = rPos[j] + n]
       /\ rEvents' = [k \in Jobs |->
            IF k = j THEN rEvents[k]
            ELSE rEvents[k] \o renderOnData(SubSeq(rStream[j], rPos[j] + 1, rPos[j] + n),
                                            rPos[j] + 1)]
  /\ UNCHANGED <<rPhase, rStream, rFuture, rError, rExit>>
  /\ UNCHANGED <<pVars, loadVars, dvVars, gdVars>>

\* a 'data' event with the next n characters of the output
RData(j) ==
  /\ rPhase[j] = "running"
  /\ \E n \in 1..(Len(rStream[j]) - rPos[j]) :
       /\ rPos' = [rPos EXCEPT ![j] = rPos[j] + n]
       /\ rEvents' = [rEvents EXCEPT ![j] =
            rEvents[j] \o renderOnData(SubSeq(rStream[j], rPos[j] + 1, rPos[j] + n),
                                       rPos[j] + 1)]
  /\ UNCHANGED <<rPhase, rStream, rFuture, rError, rExit>>
  /\ UNCHANGED <<pVars, loadVars, dvVars, gdVars>>

\* the listener put on 'exit', which is emitted when the subprocess has
\* exited, whether or not all its output has been delivered
RCloseOnExit(j) ==
  /\ rPhase[j] = "running"
  /\ rExit[j] = <<>>
  /\ \E status \in ExitStatuses :
       /\ rExit' = [rExit EXCEPT ![j] = status]
       /\ rFuture' = [rFuture EXCEPT ![j] = renderOnClose(rFuture[j], status[1], status[2])]
  /\ rPhase' = [rPhase EXCEPT ![j] =
       IF rPos[j] = Len(rStream[j]) THEN "closed" ELSE "running"]
  /\ UNCHANGED <<rStream, rPos, rEvents, rError>>
  /\ UNCHANGED <<pVars, loadVars, dvVars, gdVars>>

\* the 'close' event of a subprocess that ran: it has exited and all its
\* output has been delivered
RClose(j) ==
  /\ rPhase[j] = "running"
  /\ rPos[j] = Len(rStream[j])
  /\ \E status \in ExitStatuses :
       /\ rExit' = [rExit EXCEPT ![j] = status]
       /\ rFuture' = [rFuture EXCEPT ![j] = renderOnClose(rFuture[j], status[1], status[2])]
  /\ rPhase' = [rPhase EXCEPT ![j] = "closed"]
  /\ UNCHANGED <<rStream, rPos, rEvents, rError>>
  /\ UNCHANGED <<pVars, loadVars, dvVars, gdVars>>

\* the 'close' event that follows the 'error' event of a failed spawn
RCloseAfterError(j) ==
  /\ rPhase[j] = "errored"
  /\ rExit' = [rExit EXCEPT ![j] = SpawnFailureStatus]
  /\ rFuture' = [rFuture EXCEPT ![j] =
       renderOnClose(rFuture[j], SpawnFailureStatus[1], SpawnFailureStatus[2])]
  /\ rPhase' = [rPhase EXCEPT ![j] = "closed"]
  /\ UNCHANGED <<rStream, rPos, rEvents, rError>>
  /\ UNCHANGED <<pVars, loadVars, dvVars, gdVars>>

----------------------------------------------------------------------------
(* The load of the module (lines 13-18, 168-173): config.json is read, the *)
(* two assertions run, and only then are the three functions exported.     *)

\* 'blenderExec'
blenderExecKey == <<"b","l","e","n","d","e","r","E","x","e","c">>

\* the path of an executable that exists, and a path where nothing is
BlenderPath == Str(<<"/","b">>)

AbsentPath == Str(<<"/","n">>)

\* the paths that exist on the filesystem
FileSystem == {BlenderPath}

\* the objects config.json may hold
Configs ==
  { <<"object", <<>>>>,
    <<"object", << <<blenderExecKey, AbsentPath>> >>>>,
    <<"object", << <<blenderExecKey, BlenderPath>> >>>> }

\* object.hasOwnProperty(key)
hasOwnProperty(object, key) == \E k \in 1..Len(object[2]) : object[2][k][1] = key

\* object[key]
Get(object, key) ==
  IF hasOwnProperty(object, key)
  THEN object[2][CHOOSE k \in 1..Len(object[2]) : object[2][k][1] = key][2]
  ELSE Undefined

\* fs.existsSync(path): false for what is no path
existsSync(path) == path \in FileSystem

\* utils.assert(condition, code, message) in a process that still runs: a
\* failed assertion is fatal, the process exits with the code
assert(process, condition, code) ==
  IF process.phase = "loading" /\ ~condition
  THEN [phase |-> "exited", code |-> Num(code)]
  ELSE process

\* a load that does not look at the filesystem
moduleLoadUnchecked(cfg) ==
  LET checked == assert([phase |-> "loading", code |-> None],
                        hasOwnProperty(cfg, blenderExecKey), 1)
  IN  IF checked.phase = "loading" THEN [checked EXCEPT !.phase = "loaded"] ELSE checked

\* lines 17-18, then the rest of the module up to module.exports
moduleLoad(cfg) ==
  LET first == assert([phase |-> "loading", code |-> None],
                      hasOwnProperty(cfg, blenderExecKey), 1)
      checked == assert(first, existsSync(Get(cfg, blenderExecKey)), 2)
  IN  IF checked.phase = "loading" THEN [checked EXCEPT !.phase = "loaded"] ELSE checked

LoadInit ==
  /\ config \in Configs
  /\ loadPhase = "loading"
  /\ exitCode = None

\* require('./blender'): the top-level code of the module runs
Load ==
  /\ loadPhase = "loading"
  /\ loadPhase' = moduleLoad(config).phase
  /\ exitCode' = moduleLoad(config).code
  /\ UNCHANGED config
  /\ UNCHANGED <<dvVars, gdVars, rVars, pVars>>

----------------------------------------------------------------------------
(* Calls of parseBlenderOutputLine and of parseBlenderTime *)

\* the parts of a line of progress, as Blender writes them
FrameSegment(frame) == <<"F","r","a",":">> \o frame

MemorySegment == <<" ","M","e","m",":","2",".","5","M">>

ParenthesisSegment == <<" ","(","x",")">>

TimeSegment == <<" ","|"," ","T","i","m","e",":","0","0",":","0","2",".","0","0">>

RemainingSegment == <<" ","|"," ","R","e","m","a","i","n","i","n","g",":","0","0",":","0","1",".","0","0">>

PeakSegment == <<" ","|"," ","M","e","m",":","1",".","0","0","M",","," ","P","e","a","k",":","1",".","5","0","M">>

SceneSegment(names) == <<" ","|"," ">> \o names

InformationSegment == <<" ","|"," ","A","b">>

ExtraSegment == <<" ","|"," ","E">>

\* the mandatory parts of a line
Mandatory == {"frame", "memory", "parenthesis", "time", "peak", "scene", "information"}

\* a line is described by its frame number, its '<scene>, <render_layer>'
\* text, whether it has each optional part, and the mandatory part it lacks,
\* if any; a line without information has nothing after it
LineShapes ==
  {d \in [frame : {<<"1">>, <<"1","2">>},
          names : {<<"S",","," ","L">>, <<"S",","," ","a",","," ","L">>},
          remaining : BOOLEAN,
          extra : BOOLEAN,
          lacks : Mandatory \cup {"nothing"}] :
     d.lacks = "information" => ~d.extra}

\* the text of the line
LineText(d) ==
     (IF d.lacks = "frame" THEN <<>> ELSE FrameSegment(d.frame))
  \o (IF d.lacks = "memory" THEN <<>> ELSE MemorySegment)
  \o (IF d.lacks = "parenthesis" THEN <<>> ELSE ParenthesisSegment)
  \o (IF d.lacks = "time" THEN <<>> ELSE TimeSegment)
  \o (IF d.remaining THEN RemainingSegment ELSE <<>>)
  \o (IF d.lacks = "peak" THEN <<>> ELSE PeakSegment)
  \o (IF d.lacks = "scene" THEN <<>> ELSE SceneSegment(d.names))
  \o (IF d.lacks = "information" THEN <<>> ELSE InformationSegment)
  \o (IF d.extra THEN ExtraSegment ELSE <<>>)

\* the two-digit texts the timecodes of the model are made of
TwoDigitTexts == {<<"0","0">>, <<"0","1">>, <<"5","9">>, <<"6","0">>, <<"9","9">>}

\* texts of the shape \d{2}:\d{2}\.\d{2}
Timecodes ==
  {m \o <<":">> \o sec \o <<".">> \o c : m \in TwoDigitTexts, sec \in TwoDigitTexts, c \in TwoDigitTexts}

PInit ==
  /\ pArg = None
  /\ pResult = None

\* the call of parseBlenderOutputLine
ParseLine ==
  /\ pResult = None
  /\ pResult' = <<"return", parseBlenderOutputLine(LineText(pArg))>>
  /\ UNCHANGED pArg
  /\ UNCHANGED <<loadVars, dvVars, gdVars, rVars>>

\* the calls of parseBlenderTime on two timecodes
ParseTimes ==
  /\ pResult = None
  /\ pResult' = <<"return", <<parseBlenderTime(pArg[1]), parseBlenderTime(pArg[2])>>>>
  /\ UNCHANGED pArg
  /\ UNCHANGED <<loadVars, dvVars, gdVars, rVars>>

----------------------------------------------------------------------------
(* Specifications *)

Init == LoadInit /\ DvInit /\ GdInit /\ RInit /\ PInit

\* the module is loaded and no operation has been called
Loaded ==
  /\ config = <<"object", << <<blenderExecKey, BlenderPath>> >>>>
  /\ loadPhase = "loaded"
  /\ exitCode = None
  /\ DvInit /\ GdInit /\ RInit

\* getDevices alone
NextDevices == Load \/ DvSpawnSync \/ DvSpawnSyncFails \/ DvScan

SpecDevices == Init /\ [][NextDevices]_vars

\* getData alone
NextData == Load \/ GdSpawn \/ GdError \/ GdData \/ GdClose

SpecData == Init /\ [][NextData]_vars

\* one render invocation
NextRender == Load \/ RSpawn(1) \/ RError(1) \/ RData(1) \/ RClose(1) \/ RCloseAfterError(1)

SpecRender == Init /\ [][NextRender]_vars

\* parseBlenderOutputLine is about to be called on a line
InitLine ==
  /\ Loaded
  /\ pArg \in LineShapes
  /\ pResult = None

\* one call of parseBlenderOutputLine
NextLine == ParseLine

SpecLine == InitLine /\ [][NextLine]_vars

\* parseBlenderTime is about to be called on each of two timecodes
InitTimes ==
  /\ Loaded
  /\ pArg \in Timecodes \X Timecodes
  /\ pResult = None

\* the two calls of parseBlenderTime
NextTimes == ParseTimes

SpecTimes == InitTimes /\ [][NextTimes]_vars

\* the load of the module and the spawn of each of the three operations
NextStartup ==
  Load \/ DvSpawnSync \/ DvSpawnSyncFails \/ GdSpawn \/ GdError \/ RSpawnBrief(1) \/ RError(1)

SpecStartup == Init /\ [][NextStartup]_vars

\* two render invocations at once, their events interleaved
NextConcurrent ==
  \/ Load
  \/ RSpawnBrief(1) \/ RError(1) \/ RData(1) \/ RClose(1) \/ RCloseAfterError(1)
  \/ RSpawnBrief(2) \/ RError(2) \/ RData(2) \/ RClose(2) \/ RCloseAfterError(2)

SpecConcurrent == Init /\ [][NextConcurrent]_vars

----------------------------------------------------------------------------
(* Properties of the load of the module *)

\* C11: when config.json lacks blenderExec, or names a path that does not
\* exist, the module is never loaded and no operation has spawned, or tried
\* to spawn, a subprocess: the failed check has stopped the process.
C11_NoSpawnWithoutExecutable ==
  ~(hasOwnProperty(config, blenderExecKey) /\ existsSync(Get(config, blenderExecKey)))
  => /\ loadPhase \in {"loading", "exited"}
     /\ dvPhase = "idle" /\ gdPhase = "idle"
     /\ \A j \in Jobs : rPhase[j] = "idle"

\* the check of the path has stopped the process
C11_Witness ==
  /\ hasOwnProperty(config, blenderExecKey)
  /\ ~existsSync(Get(config, blenderExecKey))
  /\ loadPhase = "exited" /\ exitCode = Num(2)

----------------------------------------------------------------------------
(* Properties of render *)

\* the number of the line of the stream that holds position pos
LineOf(stream, pos) == 1 + Cardinality({k \in 1..(pos - 1) : stream[k] = "\n"})

\* C1: the progress events of an invocation are delivered in the order of
\* the lines of the subprocess's output they were parsed from: no event of a
\* later line comes before an event of an earlier line.
C1_ProgressInSourceOrder ==
  \A j \in Jobs : \A a, b \in 1..Len(rEvents[j]) :
    a < b => LineOf(rStream[j], rEvents[j][a].at) <= LineOf(rStream[j], rEvents[j][b].at)

\* two events of two different lines have been delivered
C1_Witness ==
  \E j \in Jobs :
    /\ Len(rEvents[j]) >= 2
    /\ LineOf(rStream[j], rEvents[j][1].at) < LineOf(rStream[j], rEvents[j][2].at)

\* the value is the exit code, or is composed of values one of which is it
CarriesExitCode(value, code) ==
  \/ value = code
  \/ /\ value[1] \in {"array", "object"}
     /\ \E k \in 1..Len(value[2]) : value[2][k] = code \/ value[2][k][2] = code

\* C2: when the subprocess has run and closed with a non-zero exit code and
\* signal null, the future is rejected and the rejection value carries the
\* exit code, whatever progress events were delivered before.
C2_RejectionCarriesExitCode ==
  \A j \in Jobs :
    ( /\ rPhase[j] = "closed"
      /\ rError[j] = None
      /\ rExit[j][1] \notin {Num(0), Null}
      /\ rExit[j][2] = Null )
    => /\ rFuture[j][1] = "rejected"
       /\ CarriesExitCode(rFuture[j][2], rExit[j][1])

\* C3: the future is resolved, with no value, if and only if the subprocess
\* has closed with exit code 0: it is resolved once the subprocess has closed
\* with code 0, and in no state is it resolved otherwise.
C3_ResolvedIffCodeZero ==
  \A j \in Jobs :
    /\ rFuture[j][1] = "resolved"
         <=> (rPhase[j] = "closed" /\ rExit[j][1] = Num(0))
    /\ rFuture[j][1] = "resolved" => rFuture[j][2] = Undefined

\* a subprocess that wrote progress lines has closed with code 0
C3_Witness ==
  \E j \in Jobs :
    /\ rPhase[j] = "closed" /\ rExit[j] = <<Num(0), Null>>
    /\ rEvents[j] # <<>>
    /\ rFuture[j] = <<"resolved", Undefined>>

\* C8: however the output is cut into chunks, exactly one progress event is
\* delivered for each line of the output that matches the pattern, built
\* from the whole line, and none for anything else: once the subprocess has
\* closed, the events are those of the output's lines.
C8_OneEventPerMatchingLine ==
  \A j \in Jobs :
    (rPhase[j] = "closed" /\ rError[j] = None)
    => rEvents[j] = renderOnData(rStream[j], 1)

\* C9: once the 'error' event of a failed spawn has been emitted, the future
\* is rejected with that error, and stays so after the 'close' event.
C9_SpawnErrorIsTheOutcome ==
  \A j \in Jobs : rError[j] # None => rFuture[j] = <<"rejected", rError[j]>>

\* the 'close' event has followed the 'error' event
C9_Witness ==
  \E j \in Jobs :
    /\ rError[j] = SpawnError
    /\ rPhase[j] = "closed"
    /\ rExit[j] = SpawnFailureStatus

\* the records passed to onprogress, in order
EventOutputs(events) == [k \in 1..Len(events) |-> events[k].output]

\* the lines of the chunk that match the pattern
MatchingLines(data) ==
  SelectSeq(split(data, <<"\n">>), LAMBDA line : parseBlenderOutputLine(line)[1])

\* C13: a line of a chunk that does not match the pattern (a blank line, a
\* banner) causes no onprogress call and no change of the future: a 'data'
\* event passes to onprogress what the same chunk without those lines would
\* pass, one record for each line that matches, and leaves the future as it is.
C13_OtherLinesHaveNoEffect ==
  [][\A j \in Jobs :
       rPos'[j] > rPos[j] =>
         \A matching \in {MatchingLines(SubSeq(rStream[j], rPos[j] + 1, rPos'[j]))} :
           \A data \in {JoinLines(matching)} :
             /\ Len(rEvents'[j]) = Len(rEvents[j]) + Len(matching)
             /\ EventOutputs(rEvents'[j])
                  = EventOutputs(rEvents[j]) \o EventOutputs(renderOnData(data, 1))
             /\ rFuture'[j] = rFuture[j]]_vars

\* a banner and a progress line have arrived in one chunk, which made one
\* onprogress call
C13_Witness ==
  /\ rStream[1] = JoinLines(<<BannerLine, ProgressLine>>)
  /\ rPos[1] = Len(rStream[1])
  /\ Len(rEvents[1]) = 1 /\ rEvents[1][1].at = Len(BannerLine) + 2
  /\ rEvents[1][1].output.information = Str(<<"A","b">>)

\* what the events of its own subprocess make of an invocation's future
OwnOutcome(j) ==
  IF rError[j] # None THEN <<"rejected", rError[j]>>
  ELSE IF rPhase[j] = "closed" THEN renderOnClose(Pending, rExit[j][1], rExit[j][2])
  ELSE Pending

\* the event was parsed from delivered text of the invocation's own output
FromOwnOutput(j, event) ==
  /\ event.at \in 1..rPos[j]
  /\ \E end \in event.at..rPos[j] :
       parseBlenderOutputLine(SubSeq(rStream[j], event.at, end)) = <<TRUE, event.output>>

----------------------------------------------------------------------------
(* Properties of getData *)

\* the output delivered so far
gdDelivered == SubSeq(gdStream, 1, gdPos)

\* C4: when a chunk has held a whole line that begins with the prefix, and
\* the rest of the line is JSON, the future is resolved with the decoded
\* rest of the first such line, also when earlier chunks held no such line.
C4_ResolvesWithFirstSentinelLine ==
  (gdComplete[1] /\ JSONparse(PayloadWhole(gdComplete[2]))[1] = "return")
  => gdFuture = <<"resolved", JSONparse(PayloadWhole(gdComplete[2]))[2]>>

\* C5: child.kill() is called at most once, and no chunk that arrives after
\* the kill request is scanned.
C5_KilledOnceThenDeaf == gdKills <= 1 /\ gdLateScans = 0

\* C6: when the subprocess could not be spawned, or has closed without any
\* line that begins with the prefix in its output, the future is rejected:
\* nothing that happens later settles it, so it would be pending for ever.
C6_RejectedWithoutSentinel ==
  ( \/ gdPhase = "failed"
    \/ /\ gdPhase = "closed"
       /\ ~FirstSentinelLine(split(gdDelivered, <<"\n">>))[1] )
  => gdFuture[1] = "rejected"

\* C7: the outcome of the probe is that of the same output delivered as one
\* chunk, however the output is cut into chunks.
C7_OutcomeIndependentOfChunks ==
  (gdStream # <<>> /\ (gdPhase = "closed" \/ gdUncaught # None))
  => /\ gdFuture = getDataOnData(Pending, gdStream).future
     /\ gdUncaught = getDataOnData(Pending, gdStream).uncaught

\* C18: whenever the future is settled because of what stdout held, resolved
\* with a payload or rejected with 'invalid stdout', child.kill() has been
\* called: no outcome is reported while the subprocess is left running.
C18_SettledByOutputMeansKilled ==
  (gdFuture[1] = "resolved" \/ gdFuture = <<"rejected", InvalidStdout>>)
  => gdKills >= 1

\* C19: when a chunk has held a whole line that begins with the prefix and
\* whose rest is not JSON, the future is rejected and no exception has left
\* the 'data' listener.
C19_DecodeFailureIsARejection ==
  (gdComplete[1] /\ JSONparse(PayloadWhole(gdComplete[2]))[1] = "throw")
  => (gdFuture[1] = "rejected" /\ gdUncaught = None)

----------------------------------------------------------------------------
(* Properties of getDevices *)

\* C10: getDevices returns the decoded JSON that is the whole rest of the
\* first line of the captured output that begins with the prefix, and throws
\* 'invalid stdout' when no line begins with it.
C10_ReturnsRemainderOfFirstSentinelLine ==
  (dvPhase = "done" /\ dvSpawned)
  => IF ~FirstSentinelLine(split(dvStdout, <<"\n">>))[1]
     THEN dvResult = <<"throw", InvalidStdout>>
     ELSE JSONparse(PayloadWhole(FirstSentinelLine(split(dvStdout, <<"\n">>))[2]))[1] = "return"
          => dvResult = JSONparse(PayloadWhole(FirstSentinelLine(split(dvStdout, <<"\n">>))[2]))

----------------------------------------------------------------------------
(* Properties of parseBlenderOutputLine and parseBlenderTime *)

\* C14: for a line with every mandatory part the record has every mandatory
\* field, with the value the line writes, remaining_time is set exactly when
\* the line has the 'Remaining:<timecode> |' part and extra_information
\* exactly when it has the trailing '| <extra_information>' part, each
\* whatever the other; a line that lacks a mandatory part yields no record.
C14_FieldsFollowTheLine ==
  pResult # None =>
    IF pArg.lacks # "nothing" THEN ~pResult[2][1]
    ELSE /\ pResult[2][1]
         /\ pResult[2][2].frame = (IF pArg.frame = <<"1">> THEN Num(1) ELSE Num(12))
         /\ pResult[2][2].memory_global = <<"number", 25, 1>>
         /\ pResult[2][2].render_time = Num(2000)
         /\ pResult[2][2].memory_current = Num(1)
         /\ pResult[2][2].memory_current_peak = <<"number", 15, 1>>
         /\ pResult[2][2].scene[1] = "string" /\ pResult[2][2].scene[2] # <<>>
         /\ pResult[2][2].render_layer[1] = "string" /\ pResult[2][2].render_layer[2] # <<>>
         /\ pResult[2][2].information = Str(<<"A","b">>)
         /\ pResult[2][2].remaining_time = (IF pArg.remaining THEN Num(1000) ELSE Undefined)
         /\ pResult[2][2].extra_information
              = (IF pArg.extra THEN Str(<<"E">>) ELSE Undefined)

\* a line with the remaining time and without extra information has been
\* parsed into a record
C14_Witness ==
  /\ pResult # None /\ pArg.lacks = "nothing"
  /\ pArg.remaining /\ ~pArg.extra
  /\ pResult[2][1]
  /\ pResult[2][2].remaining_time = Num(1000)
  /\ pResult[2][2].extra_information = Undefined

\* C15: the '<scene>, <render_layer>' text is split at its first ", ": scene
\* is what comes before it and render_layer all that comes after it, also
\* when that holds another ", ".
C15_SplitAtFirstComma ==
  (pResult # None /\ pArg.lacks = "nothing") =>
    /\ pResult[2][1]
    /\ pResult[2][2].scene
         = Str(SubSeq(pArg.names, 1, indexOf(pArg.names, <<",", " ">>, 1) - 1))
    /\ pResult[2][2].render_layer
         = Str(SubSeq(pArg.names, indexOf(pArg.names, <<",", " ">>, 1) + 2, Len(pArg.names)))

\* the seconds a timecode writes
SecondsOf(timecode) == DecimalValue(SubSeq(timecode, 4, 5))

\* C16 as stated: two different timecodes of the shape \d{2}:\d{2}\.\d{2}
\* never yield the same number of milliseconds.
C16_InjectiveOnEveryTimecode ==
  (pResult # None /\ pArg[1] # pArg[2]) => pResult[2][1] # pResult[2][2]

\* C16 amended: two different timecodes whose seconds are below 60 never
\* yield the same number of milliseconds.
C16_InjectiveBelowSixtySeconds ==
  ( /\ pResult # None /\ pArg[1] # pArg[2]
    /\ SecondsOf(pArg[1]) < 60 /\ SecondsOf(pArg[2]) < 60 )
  => pResult[2][1] # pResult[2][2]

\* 00:59.99 and 01:00.00, a hundredth of a second apart, have been converted
C16_Witness ==
  /\ pResult = <<"return", <<Num(59990), Num(60000)>>>>
  /\ SecondsOf(pArg[1]) = 59 /\ SecondsOf(pArg[2]) = 0

====
